---------------------------- MODULE Spec2Model ----------------------------
(***************************************************************************)
(* Model of src/task1.js: the STK cost model (blocks, scenarios) and the   *)
(* iterative solver runSimulation(scenarioName, maxIterations, threshold). *)
(*                                                                         *)
(* JavaScript numbers are IEEE-754 binary64 values.  They are modelled     *)
(* bit-exactly: a Number is a record [sign, exp, man] whose value is       *)
(* (-1)^sign * man * 2^exp, with man either 0 or a 53-bit significand,     *)
(* and +, -, * round to nearest, ties to even, as the engine does.  The    *)
(* significand is an arbitrary-precision natural number held as a          *)
(* little-endian sequence of limbs, because products of significands do    *)
(* not fit the model checker's integers.  Infinities, NaN, subnormals and  *)
(* the sign of zero never arise for the values used and are not modelled.  *)
(***************************************************************************)
EXTENDS Integers, Sequences, FiniteSets, TLC

(***************************************************************************)
(* Arbitrary-precision naturals: little-endian limbs, no leading zero      *)
(* limb; the empty sequence is 0.                                          *)
(***************************************************************************)
LimbBits == 15
LimbBase == 2^LimbBits

RECURSIVE Trim(_)
Trim(a) ==
  IF a = <<>> THEN <<>>
  ELSE IF a[Len(a)] = 0 THEN Trim(SubSeq(a, 1, Len(a) - 1))
  ELSE a

RECURSIVE NatToBig(_)
NatToBig(n) ==
  IF n = 0 THEN <<>> ELSE <<n % LimbBase>> \o NatToBig(n \div LimbBase)

RECURSIVE BigAddC(_, _, _)
BigAddC(a, b, c) ==
  IF a = <<>> /\ b = <<>> THEN (IF c = 0 THEN <<>> ELSE <<c>>)
  ELSE LET x == IF a = <<>> THEN 0 ELSE Head(a)
           y == IF b = <<>> THEN 0 ELSE Head(b)
           s == x + y + c
       IN  <<s % LimbBase>> \o
           BigAddC(IF a = <<>> THEN <<>> ELSE Tail(a),
                   IF b = <<>> THEN <<>> ELSE Tail(b),
                   s \div LimbBase)

BigAdd(a, b) == BigAddC(a, b, 0)

\* a - b - c for a >= b + c, limb by limb with borrow c
RECURSIVE BigSubB(_, _, _)
BigSubB(a, b, c) ==
  IF a = <<>> THEN <<>>
  ELSE LET y == IF b = <<>> THEN 0 ELSE Head(b)
           d == Head(a) - y - c
       IN  <<d % LimbBase>> \o
           BigSubB(Tail(a), IF b = <<>> THEN <<>> ELSE Tail(b),
                   IF d < 0 THEN 1 ELSE 0)

BigSub(a, b) == Trim(BigSubB(a, b, 0))

\* -1, 0, 1 as a < b, a = b, a > b
RECURSIVE BigCmpAt(_, _, _)
BigCmpAt(a, b, i) ==
  IF i = 0 THEN 0
  ELSE IF a[i] < b[i] THEN -1
  ELSE IF a[i] > b[i] THEN 1
  ELSE BigCmpAt(a, b, i - 1)

BigCmp(a, b) ==
  IF Len(a) < Len(b) THEN -1
  ELSE IF Len(a) > Len(b) THEN 1
  ELSE BigCmpAt(a, b, Len(a))

\* a * k + c for a limb-sized k
RECURSIVE BigMulSmallC(_, _, _)
BigMulSmallC(a, k, c) ==
  IF a = <<>> THEN (IF c = 0 THEN <<>> ELSE <<c>>)
  ELSE LET p == Head(a) * k + c
       IN  <<p % LimbBase>> \o BigMulSmallC(Tail(a), k, p \div LimbBase)

BigMulSmall(a, k) == Trim(BigMulSmallC(a, k, 0))

RECURSIVE BigMul(_, _)
BigMul(a, b) ==
  IF a = <<>> \/ b = <<>> THEN <<>>
  ELSE LET rest == BigMul(a, Tail(b))
       IN  BigAdd(BigMulSmall(a, Head(b)),
                  IF rest = <<>> THEN <<>> ELSE <<0>> \o rest)

\* quotient and remainder of a by a limb-sized k > 0
RECURSIVE BigDivSmallR(_, _)
BigDivSmallR(a, k) ==
  IF a = <<>> THEN [q |-> <<>>, r |-> 0]
  ELSE LET hi == BigDivSmallR(Tail(a), k)
           n  == hi.r * LimbBase + Head(a)
       IN  [q |-> <<n \div k>> \o hi.q, r |-> n % k]

BigDivSmall(a, k) == Trim(BigDivSmallR(a, k).q)
BigModSmall(a, k) == BigDivSmallR(a, k).r

RECURSIVE IntBitLen(_)
IntBitLen(n) == IF n = 0 THEN 0 ELSE 1 + IntBitLen(n \div 2)

BitLen(a) ==
  IF a = <<>> THEN 0 ELSE (Len(a) - 1) * LimbBits + IntBitLen(a[Len(a)])

ShiftLeft(a, s) ==
  IF a = <<>> THEN <<>>
  ELSE [i \in 1..(s \div LimbBits) |-> 0] \o BigMulSmall(a, 2^(s % LimbBits))

ShiftRight(a, s) ==
  IF s \div LimbBits >= Len(a) THEN <<>>
  ELSE BigDivSmall(SubSeq(a, (s \div LimbBits) + 1, Len(a)), 2^(s % LimbBits))

IsOdd(a) == a # <<>> /\ a[1] % 2 = 1

(***************************************************************************)
(* IEEE-754 binary64 arithmetic on [sign, exp, man].                       *)
(***************************************************************************)
Precision == 53

Zero == [sign |-> 0, exp |-> 0, man |-> <<>>]

IsZero(x) == x.man = <<>>

\* the Number nearest to (-1)^sign * (man + f) * 2^exp, where 0 <= f < 1 and
\* sticky says f > 0; ties go to the even significand
RoundToDouble(sign, man, exp, sticky) ==
  IF man = <<>> THEN Zero
  ELSE LET len == BitLen(man) IN
    IF len <= Precision
    THEN [sign |-> sign, exp |-> exp - (Precision - len),
          man |-> ShiftLeft(man, Precision - len)]
    ELSE LET s    == len - Precision
             q    == ShiftRight(man, s)
             rem  == BigSub(man, ShiftLeft(q, s))
             c    == BigCmp(rem, ShiftLeft(<<1>>, s - 1))
             up   == c = 1 \/ (c = 0 /\ (sticky \/ IsOdd(q)))
             q2   == IF up THEN BigAdd(q, <<1>>) ELSE q
         IN  IF BitLen(q2) > Precision
             THEN [sign |-> sign, exp |-> exp + s + 1, man |-> ShiftRight(q2, 1)]
             ELSE [sign |-> sign, exp |-> exp + s, man |-> q2]

\* the decimal literal n / 10^d (n >= 0) as the engine parses it
RECURSIVE DivPow10(_, _, _)
DivPow10(a, d, sticky) ==
  IF d = 0 THEN [q |-> a, sticky |-> sticky]
  ELSE DivPow10(BigDivSmall(a, 10), d - 1, sticky \/ BigModSmall(a, 10) # 0)

Dec(n, d) ==
  LET k == 64 + 4 * d
      r == DivPow10(ShiftLeft(NatToBig(n), k), d, FALSE)
  IN  RoundToDouble(0, r.q, -k, r.sticky)

Num(n) == Dec(n, 0)

FNeg(x) == IF IsZero(x) THEN x ELSE [x EXCEPT !.sign = 1 - x.sign]

FAbs(x) == [x EXCEPT !.sign = 0]

\* x * y
FMul(x, y) ==
  IF IsZero(x) \/ IsZero(y) THEN Zero
  ELSE RoundToDouble((x.sign + y.sign) % 2, BigMul(x.man, y.man),
                     x.exp + y.exp, FALSE)

\* x + y
FAdd(x, y) ==
  IF IsZero(x) THEN y
  ELSE IF IsZero(y) THEN x
  ELSE LET e  == IF x.exp < y.exp THEN x.exp ELSE y.exp
           mx == ShiftLeft(x.man, x.exp - e)
           my == ShiftLeft(y.man, y.exp - e)
           c  == BigCmp(mx, my)
       IN  IF x.sign = y.sign THEN RoundToDouble(x.sign, BigAdd(mx, my), e, FALSE)
           ELSE IF c = 0 THEN Zero
           ELSE IF c = 1 THEN RoundToDouble(x.sign, BigSub(mx, my), e, FALSE)
           ELSE RoundToDouble(y.sign, BigSub(my, mx), e, FALSE)

\* x - y
FSub(x, y) == FAdd(x, FNeg(y))

\* x < y
FLt(x, y) ==
  LET d == FSub(x, y) IN ~IsZero(d) /\ d.sign = 1

\* Math.max(...xs) for a non-empty xs
RECURSIVE FMax(_)
FMax(xs) ==
  IF Len(xs) = 1 THEN xs[1]
  ELSE LET m == FMax(Tail(xs)) IN IF FLt(Head(xs), m) THEN m ELSE Head(xs)

(***************************************************************************)
(* Numeric literals of the source.                                         *)
(***************************************************************************)
Lit0    == Num(0)
Lit120  == Num(120)
Lit60   == Num(60)
Lit35   == Num(35)
Lit90   == Num(90)
Lit40   == Num(40)
Lit0_8  == Dec(8, 1)
Lit0_1  == Dec(1, 1)
Lit0_05 == Dec(5, 2)

DefaultMaxIterations == 100
DefaultThreshold     == Dec(1, 3)

(***************************************************************************)
(* Bounds of the model.                                                    *)
(***************************************************************************)
\* explicit maxIterations arguments range over 0..MaxIterations
MaxIterations == 7

\* the maxIterations arguments tried: small caps and the default
IterationCaps == (0..MaxIterations) \cup {DefaultMaxIterations}

\* the threshold arguments tried: the default, a zero and a negative
\* threshold (never met), the first iteration's largest delta (96, met with
\* equality), and a looser threshold
Thresholds == {DefaultThreshold, Lit0, FNeg(Num(1)), Num(96), Dec(3, 3)}

\* a scenario name that `scenarios` does not define
UndefinedScenario == "Unlisted"

(***************************************************************************)
(* 1) Data model and 2) scenario overrides.                                *)
(***************************************************************************)
VARIABLES
  blocks,         \* the global `blocks`: type and default value per attribute
  scenarios,      \* the global `scenarios`: overrides per scenario and block
  pc,             \* "idle", or the position of the running call
  scenarioName,   \* arguments of the running (or last) call
  maxIterations,
  threshold,
  context,        \* runSimulation's local `context`
  previous,       \* the loop's local `previous`
  deltas,         \* runSimulation's local `deltas`
  iteration,      \* the loop counter
  console,        \* the k of each "Converged in k iterations." logged by the
                  \* running (or last) call
  result,         \* the value returned by the last completed call
  earlier         \* history: the scenario of the call that returned before
                  \* the running (or last) one, "none" if there was none

vars == <<blocks, scenarios, pc, scenarioName, maxIterations, threshold,
          context, previous, deltas, iteration, console, result, earlier>>

InputAttributes      == {"materialCost", "energyCost", "transportCost"}

blocksInit ==
  [Production |->
     [materialCost |-> [type |-> "input", value |-> Lit120],
      energyCost   |-> [type |-> "input", value |-> Lit60],
      disposalCost |-> [type |-> "calculated"],
      co2Cost      |-> [type |-> "calculated"]],
   Logistics |->
     [transportCost |-> [type |-> "input", value |-> Lit35],
      logisticsCost |-> [type |-> "calculated"],
      ecoFees       |-> [type |-> "calculated"]]]

scenariosInit ==
  [Base |->
     [Production |-> [materialCost |-> Lit120, energyCost |-> Lit60],
      Logistics  |-> [transportCost |-> Lit35]],
   HighEnergyPrices |->
     [Production |-> [energyCost |-> Lit90],
      Logistics  |-> [transportCost |-> Lit40]]]

\* the disposal cost without the co2Cost term
disposalCostFormulaMaterialOnly(ctx) == FMul(ctx.materialCost, Lit0_8)

\* blocks.Production.disposalCost.formula
disposalCostFormula(ctx) == FAdd(FMul(ctx.materialCost, Lit0_8), ctx.co2Cost)

\* blocks.Production.co2Cost.formula
co2CostFormula(ctx) ==
  FAdd(FMul(ctx.energyCost, Lit0_1), FMul(ctx.disposalCost, Lit0_05))

\* blocks.Logistics.logisticsCost.formula
logisticsCostFormula(ctx) == FAdd(ctx.transportCost, ctx.ecoFees)

\* blocks.Logistics.ecoFees.formula
ecoFeesFormula(ctx) ==
  FAdd(FMul(ctx.logisticsCost, Lit0_1), FMul(ctx.co2Cost, Lit0_05))

(***************************************************************************)
(* 3) runSimulation.                                                       *)
(***************************************************************************)
\* the object spread { ...a, ...b }: the keys of both, b's value winning
Spread(a, b) ==
  [k \in DOMAIN a \cup DOMAIN b |-> IF k \in DOMAIN b THEN b[k] ELSE a[k]]

\* the context before the overrides: Base's inputs, calculated attributes 0
BaseContext(scen) ==
  Spread(Spread(scen.Base.Production, scen.Base.Logistics),
         [co2Cost |-> Lit0, disposalCost |-> Lit0,
          logisticsCost |-> Lit0, ecoFees |-> Lit0])

\* the condition guarding the override merge
HasOverrides(scen, name) == name # "Base" /\ name \in DOMAIN scen

\* a merge that takes the Production overrides and leaves out the Logistics ones
ApplyOverridesProductionOnly(ctx, scen, name) ==
  Spread(ctx, scen[name].Production)

\* a merge in which the Base values win over the overrides
ApplyOverridesBaseWins(ctx, scen, name) ==
  Spread(Spread(scen[name].Production, scen[name].Logistics), ctx)

\* the override merge
ApplyOverrides(ctx, scen, name) ==
  Spread(Spread(ctx, scen[name].Production), scen[name].Logistics)

\* the context the loop starts from
InitialContext(scen, name) ==
  IF HasOverrides(scen, name)
  THEN ApplyOverrides(BaseContext(scen), scen, name)
  ELSE BaseContext(scen)

\* a loop condition that admits one iteration more
LoopGuardInclusive(i, cap) == i <= cap

\* the loop condition
LoopGuard(i, cap) == i < cap

\* a pass in which every formula reads the context as it was before the pass
RecalculateFromSnapshot(ctx) ==
  [ctx EXCEPT !.disposalCost  = disposalCostFormula(ctx),
              !.co2Cost       = co2CostFormula(ctx),
              !.logisticsCost = logisticsCostFormula(ctx),
              !.ecoFees       = ecoFeesFormula(ctx)]

\* a pass that updates co2Cost before disposalCost and ecoFees before
\* logisticsCost
RecalculateDependentsFirst(ctx) ==
  LET c1 == [ctx EXCEPT !.co2Cost       = co2CostFormula(ctx)]
      c2 == [c1  EXCEPT !.disposalCost  = disposalCostFormula(c1)]
      c3 == [c2  EXCEPT !.ecoFees       = ecoFeesFormula(c2)]
  IN  [c3 EXCEPT !.logisticsCost = logisticsCostFormula(c3)]

\* one pass over the calculated attributes, each formula reading the context
\* as the assignments before it left it
Recalculate(ctx) ==
  LET c1 == [ctx EXCEPT !.disposalCost  = disposalCostFormula(ctx)]
      c2 == [c1  EXCEPT !.co2Cost       = co2CostFormula(c1)]
      c3 == [c2  EXCEPT !.logisticsCost = logisticsCostFormula(c2)]
  IN  [c3 EXCEPT !.ecoFees = ecoFeesFormula(c3)]

Deltas(ctx, prev) ==
  << FAbs(FSub(ctx.disposalCost,  prev.disposalCost)),
     FAbs(FSub(ctx.co2Cost,       prev.co2Cost)),
     FAbs(FSub(ctx.logisticsCost, prev.logisticsCost)),
     FAbs(FSub(ctx.ecoFees,       prev.ecoFees)) >>

\* a convergence test that also accepts a largest delta equal to the threshold
ConvergedOrEqual(ds, th) == ~FLt(th, FMax(ds))

\* the convergence test
Converged(ds, th) == FLt(FMax(ds), th)

Unset    == [unset |-> TRUE]
NoResult == [none |-> TRUE]

Init ==
  /\ blocks = blocksInit
  /\ scenarios = scenariosInit
  /\ pc = "idle"
  /\ scenarioName = "Base"
  /\ maxIterations = DefaultMaxIterations
  /\ threshold = DefaultThreshold
  /\ context = Unset
  /\ previous = Unset
  /\ deltas = <<>>
  /\ iteration = 0
  /\ console = <<>>
  /\ result = NoResult
  /\ earlier = "none"

\* the locals of runSimulation(name, cap, th) when it reaches the loop
EnterLocals(name, cap, th) ==
  /\ scenarioName' = name
  /\ maxIterations' = cap
  /\ threshold' = th
  /\ context' = InitialContext(scenarios, name)
  /\ previous' = Unset
  /\ deltas' = <<>>
  /\ iteration' = 0
  /\ console' = <<>>
  /\ result' = NoResult
  /\ earlier' = IF result = NoResult THEN "none" ELSE scenarioName
  /\ pc' = "loop"

\* a context that is scenarios.Base.Production itself, filled in place, in
\* place of a fresh object
EnterAliased(name, cap, th) ==
  /\ EnterLocals(name, cap, th)
  /\ scenarios' = [scenarios EXCEPT !.Base.Production = context']
  /\ UNCHANGED blocks

\* runSimulation(name, cap, th) up to the loop: the context is a fresh object
\* and the globals are only read
Enter(name, cap, th) ==
  /\ EnterLocals(name, cap, th)
  /\ UNCHANGED <<blocks, scenarios>>

\* a call of runSimulation with some arguments
Call ==
  /\ pc = "idle"
  /\ \E name \in DOMAIN scenarios \cup {UndefinedScenario},
        cap \in IterationCaps, th \in Thresholds :
       Enter(name, cap, th)

\* one iteration of the loop body
Iterate ==
  /\ pc = "loop"
  /\ LoopGuard(iteration, maxIterations)
  /\ previous' = context
  /\ context' = Recalculate(context)
  /\ deltas' = Deltas(context', previous')
  /\ IF Converged(deltas', threshold)
     THEN /\ console' = Append(console, iteration + 1)
          /\ iteration' = iteration
          /\ pc' = "return"
     ELSE /\ console' = console
          /\ iteration' = iteration + 1
          /\ pc' = "loop"
  /\ UNCHANGED <<blocks, scenarios, scenarioName, maxIterations, threshold,
                 result, earlier>>

\* the loop condition fails
LoopExit ==
  /\ pc = "loop"
  /\ ~LoopGuard(iteration, maxIterations)
  /\ pc' = "return"
  /\ UNCHANGED <<blocks, scenarios, scenarioName, maxIterations, threshold,
                 context, previous, deltas, iteration, console, result,
                 earlier>>

\* return context
Return ==
  /\ pc = "return"
  /\ result' = context
  /\ pc' = "idle"
  /\ UNCHANGED <<blocks, scenarios, scenarioName, maxIterations, threshold,
                 context, previous, deltas, iteration, console, earlier>>

Next == Call \/ Iterate \/ LoopExit \/ Return

Spec == Init /\ [][Next]_vars

(***************************************************************************)
(* runSimulation as a function of the globals and its arguments: the       *)
(* returned context and the iteration numbers logged.                      *)
(***************************************************************************)
RECURSIVE RunLoop(_, _, _, _)
RunLoop(ctx, i, cap, th) ==
  IF ~LoopGuard(i, cap) THEN [context |-> ctx, console |-> <<>>]
  ELSE LET new == Recalculate(ctx) IN
       IF Converged(Deltas(new, ctx), th)
       THEN [context |-> new, console |-> <<i + 1>>]
       ELSE RunLoop(new, i + 1, cap, th)

RunSimulation(scen, name, cap, th) ==
  RunLoop(InitialContext(scen, name), 0, cap, th)

\* a call has returned and its result is at hand
Returned == pc = "idle" /\ result # NoResult

\* the loop body has run at least once in the running (or last) call
Iterated == deltas # <<>>

(***************************************************************************)
(* Properties.                                                             *)
(***************************************************************************)
\* |x - c| < 0.001
Near(x, c) == FLt(FAbs(FSub(x, c)), Dec(1, 3))

\* the run of these arguments as it would be as the very first run
FirstRun(name, cap, th) == RunSimulation(scenariosInit, name, cap, th)

\* C1: runSimulation('Base') with maxIterations = 100 and threshold = 0.001
\* logs convergence at exactly iteration 6 and returns, from inputs 120, 60,
\* 35, co2Cost, disposalCost, logisticsCost and ecoFees within 0.001 of
\* 11.368, 107.368, 39.520 and 4.520.
C1_BaseConvergesAtSix ==
  (Returned /\ scenarioName = "Base"
     /\ maxIterations = DefaultMaxIterations /\ threshold = DefaultThreshold)
  => /\ console = <<6>>
     /\ result.materialCost = Lit120
     /\ result.energyCost = Lit60
     /\ result.transportCost = Lit35
     /\ Near(result.co2Cost, Dec(11368, 3))
     /\ Near(result.disposalCost, Dec(107368, 3))
     /\ Near(result.logisticsCost, Dec(39520, 3))
     /\ Near(result.ecoFees, Dec(4520, 3))

C1_Witness ==
  /\ Returned /\ scenarioName = "Base"
  /\ maxIterations = DefaultMaxIterations /\ threshold = DefaultThreshold
  /\ console = <<6>>
  /\ Near(result.co2Cost, Dec(11368, 3))
  /\ Near(result.ecoFees, Dec(4520, 3))

\* C2: runSimulation('HighEnergyPrices') with maxIterations = 100 and
\* threshold = 0.001 runs with energyCost 90, transportCost 40 and
\* materialCost 120, logs convergence at the iteration Base does (6), and
\* returns co2Cost, disposalCost, logisticsCost and ecoFees within 0.001 of
\* 14.526, 110.526, 45.251 and 5.251.
C2_HighEnergyPricesConvergesAtSix ==
  (Returned /\ scenarioName = "HighEnergyPrices"
     /\ maxIterations = DefaultMaxIterations /\ threshold = DefaultThreshold)
  => /\ console = <<6>>
     /\ console = FirstRun("Base", maxIterations, threshold).console
     /\ result.materialCost = Lit120
     /\ result.energyCost = Lit90
     /\ result.transportCost = Lit40
     /\ Near(result.co2Cost, Dec(14526, 3))
     /\ Near(result.disposalCost, Dec(110526, 3))
     /\ Near(result.logisticsCost, Dec(45251, 3))
     /\ Near(result.ecoFees, Dec(5251, 3))

C2_Witness ==
  /\ Returned /\ scenarioName = "HighEnergyPrices"
  /\ maxIterations = DefaultMaxIterations /\ threshold = DefaultThreshold
  /\ console = <<6>>
  /\ result.energyCost = Lit90
  /\ Near(result.logisticsCost, Dec(45251, 3))

\* the number of times the loop body has run in the running (or last) call:
\* a break leaves the counter at the index of the iteration that converged
IterationsRun == iteration + Len(console)

\* a bound on the steps the running call can still take: one per iteration
\* the cap still allows, the loop exit and the return
StepsLeft ==
  IF pc = "loop" THEN (maxIterations - iteration) + 2
  ELSE IF pc = "return" THEN 1
  ELSE 0

C3_Bounded ==
  /\ pc # "idle" \/ result # NoResult => IterationsRun <= maxIterations
  /\ (pc = "return" \/ Returned) /\ console = <<>>
       => iteration = maxIterations /\ IterationsRun = maxIterations
  /\ ~FLt(Lit0, threshold) => console = <<>>
  /\ StepsLeft >= 0
  /\ Returned => result = context

\* C3: for every scenario, maxIterations >= 0 and threshold a call terminates
\* after at most maxIterations iterations (every step of a call lowers
\* StepsLeft, which is never negative); when no iteration's largest delta is
\* below the threshold (as with a threshold <= 0) it runs exactly
\* maxIterations iterations, logs no convergence, and returns the last
\* computed values.
C3_TerminatesWithinCap ==
  /\ []C3_Bounded
  /\ [][pc # "idle" => StepsLeft' < StepsLeft]_vars

C3_Witness ==
  /\ Returned /\ console = <<>>
  /\ threshold = Lit0
  /\ maxIterations = DefaultMaxIterations /\ iteration = DefaultMaxIterations
  /\ result = context

\* the block that declares attribute a
BlockOf(a) == CHOOSE b \in DOMAIN blocks : a \in DOMAIN blocks[b]

\* the named scenario's override of input a, if it defines one
Overrides(name, a) ==
  name \in DOMAIN scenarios /\ a \in DOMAIN scenarios[name][BlockOf(a)]

\* C4: a run starts from, for every input attribute, the named scenario's
\* override when the scenario defines one and the attribute's default in
\* blocks otherwise; the mapping gives all three inputs a value.
C4_OverrideElseDefault ==
  (pc = "loop" /\ iteration = 0)
  => /\ InputAttributes \subseteq DOMAIN context
     /\ \A a \in InputAttributes :
          /\ blocks[BlockOf(a)][a].type = "input"
          /\ context[a] = IF Overrides(scenarioName, a)
                          THEN scenarios[scenarioName][BlockOf(a)][a]
                          ELSE blocks[BlockOf(a)][a].value

C4_Witness ==
  /\ pc = "loop" /\ iteration = 0
  /\ scenarioName = "HighEnergyPrices"
  /\ Overrides(scenarioName, "energyCost")
  /\ ~Overrides(scenarioName, "materialCost")
  /\ context.energyCost = Lit90
  /\ context.materialCost = Lit120

\* C5: a run whose scenario name is not a defined scenario fails with an
\* InvalidOverride error and produces no result.
C5_UndefinedScenarioRejected ==
  scenarioName \notin DOMAIN scenarios => ~Returned

\* the Production group solved by itself, as a cyclic group of its own: the
\* same sequential update of disposalCost and co2Cost from the same start,
\* stopped by the cap or by the largest of the group's own two deltas falling
\* below the threshold.  It reads no attribute of the Logistics group, so its
\* values and its number of updates depend neither on transportCost nor on
\* how fast logisticsCost and ecoFees converge.
RECURSIVE ProductionAlone(_, _, _, _)
ProductionAlone(ctx, i, cap, th) ==
  IF ~LoopGuard(i, cap) THEN [context |-> ctx, updates |-> i]
  ELSE LET c1  == [ctx EXCEPT !.disposalCost = disposalCostFormula(ctx)]
           new == [c1  EXCEPT !.co2Cost      = co2CostFormula(c1)]
           ds  == << FAbs(FSub(new.disposalCost, ctx.disposalCost)),
                     FAbs(FSub(new.co2Cost,      ctx.co2Cost)) >>
       IN  IF FLt(FMax(ds), th)
           THEN [context |-> new, updates |-> i + 1]
           ELSE ProductionAlone(new, i + 1, cap, th)

\* C6: the cyclic groups are independent: the co2Cost and disposalCost a run
\* returns, and the number of updates applied to the Production group, are
\* those of the Production group solved by itself, whatever transportCost is
\* and however fast the Logistics group converges.
C6_ProductionIndependentOfLogistics ==
  Returned =>
    LET alone == ProductionAlone(InitialContext(scenarios, scenarioName), 0,
                                 maxIterations, threshold)
    IN  /\ result.co2Cost = alone.context.co2Cost
        /\ result.disposalCost = alone.context.disposalCost
        /\ IterationsRun = alone.updates

\* C7: after any earlier runs, a run returns the values and logs the
\* iteration it would as the very first run, and blocks and scenarios are
\* as they were at the start.
C7_RunsIsolated ==
  /\ blocks = blocksInit
  /\ scenarios = scenariosInit
  /\ Returned =>
       LET first == FirstRun(scenarioName, maxIterations, threshold)
       IN  result = first.context /\ console = first.console

C7_Witness ==
  /\ Returned
  /\ earlier = "HighEnergyPrices"
  /\ scenarioName = "Base"
  /\ result.energyCost = Lit60
  /\ console = <<6>>

\* C8: within an iteration disposalCost and logisticsCost are computed from
\* the co2Cost and ecoFees of the previous iteration, co2Cost from the
\* disposalCost written in this iteration, and ecoFees from the
\* logisticsCost and co2Cost written in this iteration.
C8_GaussSeidel ==
  Iterated =>
    /\ context.disposalCost = disposalCostFormula(previous)
    /\ context.co2Cost =
         co2CostFormula([previous EXCEPT !.disposalCost = context.disposalCost])
    /\ context.logisticsCost = logisticsCostFormula(previous)
    /\ context.ecoFees =
         ecoFeesFormula([previous EXCEPT
                           !.logisticsCost = context.logisticsCost,
                           !.co2Cost = context.co2Cost])

\* an iteration after which the sequential update and an update from the
\* snapshot differ
C8_Witness ==
  /\ Iterated /\ iteration >= 1
  /\ context.co2Cost # co2CostFormula(previous)
  /\ context.ecoFees # ecoFeesFormula(previous)

C9_StopsAtFirstBelow ==
  /\ console # <<>> =>
       /\ console = <<iteration + 1>>
       /\ iteration + 1 \in 1..maxIterations
       /\ pc \in {"return", "idle"}
       /\ FLt(FMax(deltas), threshold)
  /\ (Iterated /\ console = <<>>) => ~FLt(FMax(deltas), threshold)
  /\ (Iterated /\ FMax(deltas) = threshold) => console = <<>>

\* C9: the loop stops and logs convergence at iteration k exactly when k is
\* the first iteration whose largest delta is strictly below the threshold
\* (a largest delta equal to the threshold does not count), and the context
\* is not updated after that iteration.
C9_ConvergenceTest ==
  /\ []C9_StopsAtFirstBelow
  /\ [][(console # <<>> /\ pc # "idle") => context' = context]_vars

\* convergence logged at iteration 2, the first iteration's largest delta
\* (96) having equalled the threshold
C9_Witness ==
  /\ threshold = Num(96)
  /\ console = <<2>>
  /\ Returned
  /\ FLt(FMax(deltas), threshold)
  /\ FMax(Deltas(Recalculate(InitialContext(scenarios, scenarioName)),
                 InitialContext(scenarios, scenarioName))) = threshold

\* C10: after every completed iteration the inputs are the resolved inputs,
\* co2Cost = energyCost*0.1 + disposalCost*0.05 and
\* ecoFees = logisticsCost*0.1 + co2Cost*0.05 hold exactly in the context,
\* and once convergence is logged disposalCost and logisticsCost are within
\* the threshold of materialCost*0.8 + co2Cost and transportCost + ecoFees.
C10_FormulasHold ==
  /\ (Returned /\ maxIterations >= 1) => Iterated
  /\ Iterated =>
    /\ \A a \in InputAttributes :
         context[a] = InitialContext(scenarios, scenarioName)[a]
    /\ context.co2Cost = co2CostFormula(context)
    /\ context.ecoFees = ecoFeesFormula(context)
    /\ console # <<>> =>
         /\ FLt(FAbs(FSub(context.disposalCost, disposalCostFormula(context))),
                threshold)
         /\ FLt(FAbs(FSub(context.logisticsCost, logisticsCostFormula(context))),
                threshold)
    /\ Returned => result = context

C10_Witness ==
  /\ Returned /\ Iterated /\ console # <<>>
  /\ result = context
  /\ context.co2Cost = co2CostFormula(context)
  /\ context.disposalCost # disposalCostFormula(context)
  /\ context.logisticsCost # logisticsCostFormula(context)

=============================================================================
